---- MODULE Spec2Model ----
(***************************************************************************)
(* A model of the torrent-session engine of cosmic-torrent                 *)
(* (src/src/torrent_engine.rs): the registry `torrents`, the event channel *)
(* fed by `event_sender`, the lifecycle operations and the reporter loop;  *)
(* and of the window layer (src/src/main.rs): the application state        *)
(* `cosmic_torrent` and its message handler `update`.  The window layer    *)
(* holds no engine: the two state machines share no state.                 *)
(*                                                                         *)
(* Strings are sequences of one-character strings, so that URL parsing,    *)
(* percent-decoding and hex-encoding are computed character by character.  *)
(* f32 values in [0, 2) are integers counting units of 2^-30, rounded to a *)
(* 24-bit significand (round-to-nearest, ties-to-even) as IEEE-754 binary32 *)
(* arithmetic does.                                                        *)
(***************************************************************************)
EXTENDS Integers, Sequences, FiniteSets, TLC

VARIABLES torrents, iterOrder, events, result, cosmic_torrent, user_messages

vars == <<torrents, iterOrder, events, result, cosmic_torrent, user_messages>>

(***************************************************************************)
(* Option and Result values.                                               *)
(***************************************************************************)
None == [some |-> FALSE]
Some(x) == [some |-> TRUE, val |-> x]
Ok(v) == [ok |-> TRUE, val |-> v]
Err(e) == [ok |-> FALSE, err |-> e]

(***************************************************************************)
(* Characters.                                                             *)
(***************************************************************************)
UpperSeq == <<"A","B","C","D","E","F","G","H","I","J","K","L","M",
              "N","O","P","Q","R","S","T","U","V","W","X","Y","Z">>
LowerSeq == <<"a","b","c","d","e","f","g","h","i","j","k","l","m",
              "n","o","p","q","r","s","t","u","v","w","x","y","z">>
DigitSeq == <<"0","1","2","3","4","5","6","7","8","9">>
HexDigits == <<"0","1","2","3","4","5","6","7","8","9","a","b","c","d","e","f">>
\* The printable ASCII range, bytes 32..126, in order (the double quote, the
\* backslash and the backquote are written as marks).
AsciiPrintable ==
    <<" ","!","<quot>","#","$","%","&","'","(",")","*","+",",","-",".","/",
      "0","1","2","3","4","5","6","7","8","9",":",";","<","=",">","?",
      "@","A","B","C","D","E","F","G","H","I","J","K","L","M","N","O",
      "P","Q","R","S","T","U","V","W","X","Y","Z","[","<bsl>","]","^","_",
      "<bt>","a","b","c","d","e","f","g","h","i","j","k","l","m","n","o",
      "p","q","r","s","t","u","v","w","x","y","z","{","|","}","~">>

Range(s) == {s[i] : i \in 1..Len(s)}
IndexIn(c, s) == CHOOSE i \in 1..Len(s) : s[i] = c
UpperSet == Range(UpperSeq)
AlphaSet == Range(UpperSeq) \cup Range(LowerSeq)
DigitSet == Range(DigitSeq)
HexSet == Range(HexDigits) \cup {"A", "B", "C", "D", "E", "F"}
IsAlpha(c) == c \in AlphaSet
IsDigit(c) == c \in DigitSet
ToLowerChar(c) == IF c \in UpperSet THEN LowerSeq[IndexIn(c, UpperSeq)] ELSE c
ToLower(s) == [i \in 1..Len(s) |-> ToLowerChar(s[i])]
IsHexDigit(c) == c \in HexSet
HexVal(c) == IndexIn(ToLowerChar(c), HexDigits) - 1
\* A decoded byte as a character; bytes outside printable ASCII are kept as a
\* replacement mark (String::from_utf8_lossy).
CharOfByte(b) == IF b >= 32 /\ b <= 126 THEN AsciiPrintable[b - 31] ELSE "<?>"

StartsWith(s, p) == Len(s) >= Len(p) /\ SubSeq(s, 1, Len(p)) = p
StripPrefix(s, p) == SubSeq(s, Len(p) + 1, Len(s))
RECURSIVE FirstFrom(_, _, _)
FirstFrom(s, cs, i) == IF i > Len(s) \/ s[i] \in cs THEN i ELSE FirstFrom(s, cs, i + 1)
\* The first position of a character of set cs in s, or Len(s)+1.
FirstOf(s, cs) == FirstFrom(s, cs, 1)

RECURSIVE Split(_, _)
\* s split at every occurrence of the character c.
Split(s, c) ==
    LET i == FirstOf(s, {c}) IN
    IF i > Len(s) THEN <<s>>
    ELSE <<SubSeq(s, 1, i - 1)>> \o Split(SubSeq(s, i + 1, Len(s)), c)

RECURSIVE Flatten(_)
Flatten(ss) == IF Len(ss) = 0 THEN <<>> ELSE Head(ss) \o Flatten(Tail(ss))

RECURSIVE SumSizes(_)
SumSizes(fs) == IF Len(fs) = 0 THEN 0 ELSE Head(fs).size + SumSizes(Tail(fs))

(***************************************************************************)
(* f32 arithmetic on values in [0, 2), as integers in units of 2^-30.      *)
(***************************************************************************)
\* F(v) with v evaluated once, as a `let` binding of the source is.
Bind(v, F(_)) == CHOOSE r \in { F(x) : x \in {v} } : TRUE

Pow2(n) == 2 ^ n

\* 1.0_f32 in units of 2^-30.
F32One == Pow2(30)
\* 0.01_f32 = 0x1.47ae14p-7 in units of 2^-30.
F32Increment == 10737418

RECURSIVE ExcessBits(_)
\* How many low bits of n do not fit a 24-bit significand.
ExcessBits(n) == IF n < Pow2(24) THEN 0 ELSE 1 + ExcessBits(n \div 2)

\* n rounded to a 24-bit significand, to nearest, ties to even.
RoundToSig24(n) ==
    Bind(n, LAMBDA v :
    Bind(Pow2(ExcessBits(v)), LAMBDA q :
      LET r == v % q
          base == v - r
      IN  IF 2 * r < q THEN base
          ELSE IF 2 * r > q THEN base + q
          ELSE IF (base \div q) % 2 = 0 THEN base ELSE base + q))

F32Add(a, b) == RoundToSig24(a + b)
F32Min(a, b) == IF a < b THEN a ELSE b

\* How many times 2 divides n (n < 2^31).
TrailingZeros(n) ==
    IF n = 0 THEN 0
    ELSE CHOOSE z \in 0..30 : n % Pow2(z) = 0 /\ (n \div Pow2(z)) % 2 = 1

\* `size as f32`: the integer rounded to a 24-bit significand.
U64AsF32(size) == RoundToSig24(size)

\* (sizeF * p) as u64, for an integer-valued f32 sizeF and p in units of 2^-30:
\* the product of the odd parts is rounded to 24 bits, scaled, and truncated
\* toward zero by the cast.
F32MulAsU64(sizeF, p) ==
    IF sizeF = 0 \/ p = 0 THEN 0
    ELSE Bind(TrailingZeros(sizeF), LAMBDA es :
         Bind(TrailingZeros(p), LAMBDA ep :
           LET m == RoundToSig24((sizeF \div Pow2(es)) * (p \div Pow2(ep)))
               e == es + ep - 30
           IN  IF e >= 0 THEN m * Pow2(e)
               ELSE m \div Pow2(0 - e)))

(***************************************************************************)
(* Url::parse, Url::scheme, Url::query_pairs (crate url), as far as        *)
(* add_magnet depends on them.                                             *)
(***************************************************************************)
SpecialSchemes == { <<"h","t","t","p">>, <<"h","t","t","p","s">>, <<"f","t","p">>,
                    <<"w","s">>, <<"w","s","s">> }
SchemeCharSet == AlphaSet \cup DigitSet \cup {"+", "-", "."}
IsSchemeChar(c) == c \in SchemeCharSet

RECURSIVE SkipSlashes(_)
SkipSlashes(s) == IF Len(s) > 0 /\ Head(s) = "/" THEN SkipSlashes(Tail(s)) ELSE s

\* Url::parse without a base: a scheme (a letter, then letters, digits, + - .)
\* ended by ':' is required and is lower-cased; a special scheme needs a
\* non-empty host; the query runs from the first '?' to the first '#'.
UrlParse(input) ==
    LET colon == FirstOf(input, {":"})
        rawScheme == SubSeq(input, 1, colon - 1)
        scheme == ToLower(rawScheme)
        rest == SubSeq(input, colon + 1, Len(input))
        hashAt == FirstOf(rest, {"#"})
        noFrag == SubSeq(rest, 1, hashAt - 1)
        qAt == FirstOf(noFrag, {"?"})
        beforeQuery == SubSeq(noFrag, 1, qAt - 1)
        host == LET a == SkipSlashes(beforeQuery)
                IN  SubSeq(a, 1, FirstOf(a, {"/"}) - 1)
        query == IF qAt > Len(noFrag) THEN None
                 ELSE Some(SubSeq(noFrag, qAt + 1, Len(noFrag)))
    IN  IF colon > Len(input) \/ Len(rawScheme) = 0 \/ ~IsAlpha(rawScheme[1])
           \/ \E i \in 1..Len(rawScheme) : ~IsSchemeChar(rawScheme[i])
        THEN Err("relative URL without a base")
        ELSE IF scheme \in SpecialSchemes /\ Len(host) = 0
        THEN Err("empty host")
        ELSE Ok([scheme |-> scheme, query |-> query])

RECURSIVE PercentDecode(_)
\* percent_decode: %XY with two hex digits becomes the byte; any other '%' stays.
PercentDecode(s) ==
    IF Len(s) = 0 THEN <<>>
    ELSE IF s[1] = "%" /\ Len(s) >= 3 /\ IsHexDigit(s[2]) /\ IsHexDigit(s[3])
    THEN <<CharOfByte(16 * HexVal(s[2]) + HexVal(s[3]))>> \o PercentDecode(SubSeq(s, 4, Len(s)))
    ELSE <<s[1]>> \o PercentDecode(Tail(s))

\* form_urlencoded decoding of one name or value: '+' is a space, then percent_decode.
FormDecode(s) == PercentDecode([i \in 1..Len(s) |-> IF s[i] = "+" THEN " " ELSE s[i]])

\* Url::query_pairs: the query split at '&', empty pieces skipped, each piece
\* split at its first '=', both halves decoded.
QueryPairs(url) ==
    IF ~url.query.some THEN <<>>
    ELSE LET pieces == SelectSeq(Split(url.query.val, "&"), LAMBDA p : Len(p) > 0)
         IN  [i \in 1..Len(pieces) |->
                LET p == pieces[i]
                    eq == FirstOf(p, {"="})
                IN  [key |-> FormDecode(SubSeq(p, 1, eq - 1)),
                     value |-> FormDecode(SubSeq(p, eq + 1, Len(p)))]]

\* hex::encode: two lower-case hex digits per byte.
HexEncode(bytes) ==
    Flatten([i \in 1..Len(bytes) |->
               <<HexDigits[(bytes[i] \div 16) + 1], HexDigits[(bytes[i] % 16) + 1]>>])

(***************************************************************************)
(* Bounds of the model and the inputs of the operations.                   *)
(***************************************************************************)
\* Lifecycle operations are explored while the channel holds fewer events.
MaxEvents == 4
\* The reporter is run on to quiescence (101 ticks per torrent) in the
\* scenarios with at most this many Added/Paused/Resumed events.
MaxLongOps == 2
\* The admission scenarios are explored while the channel holds fewer events.
MaxAdmitEvents == 3
\* The liveness scenarios apply lifecycle operations while the channel holds
\* fewer events; the reporter is never held back.
MaxLiveEvents == 3

MAGNET == <<"m","a","g","n","e","t">>
XT == <<"x","t">>
URN_BTIH == <<"u","r","n",":","b","t","i","h",":">>
XT_BTIH == XT \o <<"=">> \o URN_BTIH

\* The magnet_url arguments of the lifecycle scenarios: two identifiers and a
\* URI without an xt parameter.
CoreMagnets ==
    { MAGNET \o <<":","?">> \o XT_BTIH \o <<"A">>,
      MAGNET \o <<":","?">> \o XT_BTIH \o <<"B">>,
      MAGNET \o <<":","?","d","n","=","A">> }

\* The magnet_url arguments of the admission scenarios: well-formed ones (xt
\* after another parameter, two xt parameters, an xt of another namespace,
\* percent-encoded, empty identifier, with a fragment, upper-case scheme) and
\* malformed ones (no xt, another key, no urn:btih: prefix, no query, another
\* scheme, no scheme, empty).
MagnetInputs ==
    CoreMagnets \cup
    { MAGNET \o <<":","?","d","n","=","B","&">> \o XT_BTIH \o <<"A">>,
      MAGNET \o <<":","?">> \o XT_BTIH \o <<"A","&">> \o XT_BTIH \o <<"B">>,
      MAGNET \o <<":","?","x","t","=","u","r","n",":","s","h","a","1",":","A","&">>
             \o XT_BTIH \o <<"B">>,
      MAGNET \o <<":","?">> \o XT_BTIH \o <<"%","4","1">>,
      MAGNET \o <<":","?","x","t","=","u","r","n","%","3","A","b","t","i","h","%","3","a","B">>,
      MAGNET \o <<":","?">> \o XT_BTIH,
      MAGNET \o <<":","?">> \o XT_BTIH \o <<"A","#","B">>,
      <<"M","A","G","N","E","T",":","?">> \o XT_BTIH \o <<"B">>,
      MAGNET \o <<":","?","x","t",".","1","=">> \o URN_BTIH \o <<"A">>,
      MAGNET \o <<":","?","x","t","=","b","t","i","h",":","A">>,
      MAGNET \o <<":">> \o XT_BTIH \o <<"A">>,
      URN_BTIH \o <<"A">>,
      <<"h","t","t","p",":","/","/","h","/","?">> \o XT_BTIH \o <<"A">>,
      <<"h","t","t","p",":","?">> \o XT_BTIH \o <<"A">>,
      XT_BTIH \o <<"A">>,
      <<>> }

\* The query parameters the inputs of extract_info_hash are made of: two
\* identifiers, an empty identifier, no urn: prefix, another key, a key that is
\* xt with a suffix, percent-encoded key and value, an empty parameter, an
\* upper-case key, a value with = and +.
ParamPool ==
    { <<"x","t","=","u","r","n",":","b","t","i","h",":","A">>,
      <<"x","t","=","u","r","n",":","b","t","i","h",":","B">>,
      <<"x","t","=","u","r","n",":","b","t","i","h",":">>,
      <<"x","t","=","b","t","i","h",":","A">>,
      <<"d","n","=","A">>,
      <<"x","t",".","1","=","u","r","n",":","b","t","i","h",":","A">>,
      <<"x","%","7","4","=","u","r","n","%","3","A","b","t","i","h",":","%","4","1">>,
      << >>,
      <<"X","T","=","u","r","n",":","b","t","i","h",":","A">>,
      <<"x","t","=","u","r","n",":","b","t","i","h",":","A","=","b","+","c">> }
\* The inputs have at most this many parameters.
MaxParams == 2

RECURSIVE JoinParams(_)
JoinParams(ps) ==
    IF Len(ps) = 0 THEN << >>
    ELSE IF Len(ps) = 1 THEN ps[1]
    ELSE ps[1] \o <<"&">> \o JoinParams(Tail(ps))

\* magnet:?p1&...&pn for every sequence of at most MaxParams parameters.
ExtractInputs ==
    { MAGNET \o <<":","?">> \o JoinParams(ps) :
        ps \in UNION { [1..n -> ParamPool] : n \in 0..MaxParams } }

\* What fs::read and Torrent::read_from_bytes give for each file_path tried:
\* a single-file torrent, a multi-file torrent, the single-file torrent again
\* with another announce URL (the info dictionary, so the info hash, is the
\* same), bytes that are no torrent; a path outside the domain cannot be read.  info_hash is what
\* Torrent::info_hash() returns, a hex string (shortened here).
FileSystem ==
    ( <<"s">> :> [bencode |-> TRUE,
                  torrent |-> [name |-> <<"a",".","t","x","t">>,
                               length |-> 100,
                               files |-> None,
                               announce |-> Some(<<"t","1">>),
                               announce_list |-> None,
                               info_hash |-> <<"a","b">>]] )
    @@
    ( <<"m">> :> [bencode |-> TRUE,
                  torrent |-> [name |-> <<"d">>,
                               length |-> 7,
                               files |-> Some(<< [length |-> 3, path |-> <<"x","/","y">>],
                                                 [length |-> 4, path |-> <<"z">>] >>),
                               announce |-> Some(<<"t","1">>),
                               announce_list |-> Some(<< << <<"t","1">>, <<"t","2">> >>,
                                                        << <<"t","3">> >> >>),
                               info_hash |-> <<"c","d">>]] )
    @@
    ( <<"t">> :> [bencode |-> TRUE,
                  torrent |-> [name |-> <<"a",".","t","x","t">>,
                               length |-> 100,
                               files |-> None,
                               announce |-> Some(<<"t","9">>),
                               announce_list |-> None,
                               info_hash |-> <<"a","b">>]] )
    @@
    ( <<"g">> :> [bencode |-> FALSE] )

\* The file_path arguments of the admission scenarios.
FilePaths == { <<"s">>, <<"m">>, <<"g">>, <<"n">> }
\* Two files of the same torrent, so of the same identifier.
SameTorrentFiles == { <<"s">>, <<"t">> }
\* The file_path arguments of the lifecycle scenarios.
CoreFiles == { <<"s">>, <<"n">> }

FsRead(file_path) ==
    IF file_path \in DOMAIN FileSystem THEN Ok(FileSystem[file_path])
    ELSE Err("No such file or directory")

TorrentReadFromBytes(data) ==
    IF data.bencode THEN Ok(data.torrent) ELSE Err("malformed bencode")

\* The bytes of an ASCII string.
AsBytes(str) == [i \in 1..Len(str) |-> IndexIn(str[i], AsciiPrintable) + 31]

\* Path::join: an absolute argument replaces the path.
PathJoin(base, arg) ==
    IF Len(arg) > 0 /\ arg[1] = "/" THEN arg
    ELSE IF Len(base) = 0 THEN arg
    ELSE base \o <<"/">> \o arg

(***************************************************************************)
(* The engine.                                                             *)
(***************************************************************************)
ZeroStats ==
    [downloaded |-> 0, uploaded |-> 0, download_rate |-> 0, upload_rate |-> 0,
     progress |-> 0, peers |-> 0, seeds |-> 0]

TorrentHandle(info, stats, paused) == [info |-> info, stats |-> stats, paused |-> paused]

Added(id, info) == [tag |-> "Added", id |-> id, info |-> info]
Progress(id, stats) == [tag |-> "Progress", id |-> id, stats |-> stats]
Completed(id) == [tag |-> "Completed", id |-> id]
Paused(id) == [tag |-> "Paused", id |-> id]
Resumed(id) == [tag |-> "Resumed", id |-> id]

\* The orders in which a HashMap holding the keys ks may be iterated.
IterOrders(ks) ==
    { o \in [1..Cardinality(ks) -> ks] : \A i, j \in 1..Cardinality(ks) : o[i] = o[j] => i = j }

\* CosmicTorrent::new (src/src/main.rs): no torrents, an empty input field.
CosmicTorrentNew == [torrents |-> << >>, add_torrent_input |-> << >>]

Init ==
    /\ torrents = << >>
    /\ iterOrder = << >>
    /\ events = << >>
    /\ result = [op |-> "new", ret |-> Ok(<< >>)]
    /\ cosmic_torrent = CosmicTorrentNew
    /\ user_messages = 0

RECURSIVE ExtractLoopAnyXt(_)
\* ExtractLoop without the test of the urn:btih: prefix.
ExtractLoopAnyXt(pairs) ==
    IF Len(pairs) = 0 THEN Err("No info hash found in magnet URL")
    ELSE IF Head(pairs).key = XT
    THEN Ok(StripPrefix(Head(pairs).value, URN_BTIH))
    ELSE ExtractLoopAnyXt(Tail(pairs))

RECURSIVE ExtractLoop_keep_prefix(_)
\* ExtractLoop that returns the value without stripping the prefix.
ExtractLoop_keep_prefix(pairs) ==
    IF Len(pairs) = 0 THEN Err("No info hash found in magnet URL")
    ELSE IF Head(pairs).key = XT /\ StartsWith(Head(pairs).value, URN_BTIH)
    THEN Ok(Head(pairs).value)
    ELSE ExtractLoop_keep_prefix(Tail(pairs))

RECURSIVE ExtractLoop(_)
ExtractLoop(pairs) ==
    IF Len(pairs) = 0 THEN Err("No info hash found in magnet URL")
    ELSE IF Head(pairs).key = XT /\ StartsWith(Head(pairs).value, URN_BTIH)
    THEN Ok(StripPrefix(Head(pairs).value, URN_BTIH))
    ELSE ExtractLoop(Tail(pairs))

RECURSIVE ExtractLast(_, _)
ExtractLast(pairs, found) ==
    IF Len(pairs) = 0 THEN found
    ELSE IF Head(pairs).key = XT /\ StartsWith(Head(pairs).value, URN_BTIH)
    THEN ExtractLast(Tail(pairs), Ok(StripPrefix(Head(pairs).value, URN_BTIH)))
    ELSE ExtractLast(Tail(pairs), found)
\* extract_info_hash without the early return: the last matching parameter wins.
extract_info_hash_last(url) ==
    ExtractLast(QueryPairs(url), Err("No info hash found in magnet URL"))

extract_info_hash(url) == ExtractLoop(QueryPairs(url))

\* An insert that keeps the statistics of a handle already registered.
InsertAndAnnounce_keep_stats(op, info_hash, torrent_info) ==
    /\ torrents' = (info_hash :> TorrentHandle(torrent_info,
                                     IF info_hash \in DOMAIN torrents
                                     THEN torrents[info_hash].stats ELSE ZeroStats,
                                     FALSE)) @@ torrents
    /\ iterOrder' \in IterOrders(DOMAIN torrents')
    /\ events' = Append(events, Added(info_hash, torrent_info))
    /\ UNCHANGED <<cosmic_torrent, user_messages>>
    /\ result' = [op |-> op, ret |-> Ok(info_hash)]

\* HashMap::insert followed by the send of Added.
InsertAndAnnounce(op, info_hash, torrent_info) ==
    /\ torrents' = (info_hash :> TorrentHandle(torrent_info, ZeroStats, FALSE)) @@ torrents
    /\ iterOrder' \in IterOrders(DOMAIN torrents')
    /\ events' = Append(events, Added(info_hash, torrent_info))
    /\ UNCHANGED <<cosmic_torrent, user_messages>>
    /\ result' = [op |-> op, ret |-> Ok(info_hash)]

Fail(op, e) ==
    /\ UNCHANGED <<cosmic_torrent, user_messages>>
    /\ result' = [op |-> op, ret |-> Err(e)]
    /\ UNCHANGED <<torrents, iterOrder, events>>

MagnetSize == 1024 * 1024 * 100
\* "http://tracker.example.com:8080/announce"
TRACKER ==
    <<"h","t","t","p",":","/","/","t","r","a","c","k","e","r",".","e","x","a","m","p","l","e",".","c","o","m",":","8","0","8","0">>
    \o <<"/","a","n","n","o","u","n","c","e">>

add_magnet(magnet_url) ==
    LET url == UrlParse(magnet_url) IN
    IF ~url.ok THEN Fail("add_magnet", "Invalid magnet URL")
    ELSE IF url.val.scheme # MAGNET THEN Fail("add_magnet", "Not a magnet URL")
    ELSE LET info_hash == extract_info_hash(url.val) IN
         IF ~info_hash.ok THEN Fail("add_magnet", info_hash.err)
         ELSE InsertAndAnnounce("add_magnet", info_hash.val,
                [name |-> <<"T","o","r","r","e","n","t"," ">> \o info_hash.val,
                 size |-> MagnetSize,
                 info_hash |-> info_hash.val,
                 announce_urls |-> << TRACKER >>,
                 files |-> << [path |-> <<"e","x","a","m","p","l","e","_","f","i","l","e",".","t","x","t">>,
                               size |-> MagnetSize] >>])

\* The files and announce_urls of add_torrent_file.
TorrentFiles(torrent) ==
    IF torrent.files.some
    THEN [i \in 1..Len(torrent.files.val) |->
            [path |-> PathJoin(torrent.files.val[i].path, <<"/">>),
             size |-> torrent.files.val[i].length]]
    ELSE << [path |-> torrent.name, size |-> torrent.length] >>

AnnounceUrls(torrent) ==
    (IF torrent.announce.some THEN <<torrent.announce.val>> ELSE << >>)
    \o (IF torrent.announce_list.some THEN Flatten(torrent.announce_list.val) ELSE << >>)

\* add_torrent_file that registers a handle under the path before it decodes
\* the bytes, and leaves it there when the decoding fails.
add_torrent_file_partial(file_path) ==
    LET torrent_data == FsRead(file_path) IN
    IF ~torrent_data.ok THEN Fail("add_torrent_file", "Failed to read torrent file")
    ELSE LET torrent == TorrentReadFromBytes(torrent_data.val) IN
         IF ~torrent.ok
         THEN /\ torrents' = (file_path :> TorrentHandle(
                                   [name |-> file_path, size |-> 0, info_hash |-> file_path,
                                    announce_urls |-> << >>, files |-> << >>],
                                   ZeroStats, FALSE)) @@ torrents
              /\ iterOrder' \in IterOrders(DOMAIN torrents')
              /\ UNCHANGED <<cosmic_torrent, user_messages>>
              /\ result' = [op |-> "add_torrent_file",
                            ret |-> Err("Failed to parse torrent file")]
              /\ UNCHANGED events
         ELSE LET info_hash == HexEncode(AsBytes(torrent.val.info_hash))
                  files == TorrentFiles(torrent.val)
              IN  InsertAndAnnounce("add_torrent_file", info_hash,
                     [name |-> torrent.val.name,
                      size |-> SumSizes(files),
                      info_hash |-> info_hash,
                      announce_urls |-> AnnounceUrls(torrent.val),
                      files |-> files])

add_torrent_file(file_path) ==
    LET torrent_data == FsRead(file_path) IN
    IF ~torrent_data.ok THEN Fail("add_torrent_file", "Failed to read torrent file")
    ELSE LET torrent == TorrentReadFromBytes(torrent_data.val) IN
         IF ~torrent.ok THEN Fail("add_torrent_file", "Failed to parse torrent file")
         ELSE LET info_hash == HexEncode(AsBytes(torrent.val.info_hash))
                  files == TorrentFiles(torrent.val)
              IN  InsertAndAnnounce("add_torrent_file", info_hash,
                     [name |-> torrent.val.name,
                      size |-> SumSizes(files),
                      info_hash |-> info_hash,
                      announce_urls |-> AnnounceUrls(torrent.val),
                      files |-> files])

\* pause_torrent that sends Paused before it looks the identifier up.
pause_torrent_announce_first(info_hash) ==
    IF info_hash \in DOMAIN torrents
    THEN /\ torrents' = [torrents EXCEPT ![info_hash].paused = TRUE]
         /\ events' = Append(events, Paused(info_hash))
         /\ UNCHANGED <<cosmic_torrent, user_messages>>
         /\ result' = [op |-> "pause_torrent", ret |-> Ok(<< >>)]
         /\ UNCHANGED iterOrder
    ELSE /\ events' = Append(events, Paused(info_hash))
         /\ UNCHANGED <<cosmic_torrent, user_messages>>
         /\ result' = [op |-> "pause_torrent", ret |-> Err("Torrent not found")]
         /\ UNCHANGED <<torrents, iterOrder>>

\* pause_torrent that sends nothing.
pause_torrent_silent(info_hash) ==
    IF info_hash \in DOMAIN torrents
    THEN /\ torrents' = [torrents EXCEPT ![info_hash].paused = TRUE]
         /\ UNCHANGED <<cosmic_torrent, user_messages>>
         /\ result' = [op |-> "pause_torrent", ret |-> Ok(<< >>)]
         /\ UNCHANGED <<iterOrder, events>>
    ELSE Fail("pause_torrent", "Torrent not found")

\* pause_torrent that does nothing, and sends nothing, when already paused.
pause_torrent_once(info_hash) ==
    IF info_hash \in DOMAIN torrents
    THEN /\ torrents' = [torrents EXCEPT ![info_hash].paused = TRUE]
         /\ events' = IF torrents[info_hash].paused THEN events
                      ELSE Append(events, Paused(info_hash))
         /\ UNCHANGED <<cosmic_torrent, user_messages>>
         /\ result' = [op |-> "pause_torrent", ret |-> Ok(<< >>)]
         /\ UNCHANGED iterOrder
    ELSE Fail("pause_torrent", "Torrent not found")

pause_torrent(info_hash) ==
    IF info_hash \in DOMAIN torrents
    THEN /\ torrents' = [torrents EXCEPT ![info_hash].paused = TRUE]
         /\ events' = Append(events, Paused(info_hash))
         /\ UNCHANGED <<cosmic_torrent, user_messages>>
         /\ result' = [op |-> "pause_torrent", ret |-> Ok(<< >>)]
         /\ UNCHANGED iterOrder
    ELSE Fail("pause_torrent", "Torrent not found")

\* resume_torrent that restarts the statistics.
resume_torrent_reset(info_hash) ==
    IF info_hash \in DOMAIN torrents
    THEN /\ torrents' = [torrents EXCEPT ![info_hash].paused = FALSE,
                                         ![info_hash].stats = ZeroStats]
         /\ events' = Append(events, Resumed(info_hash))
         /\ UNCHANGED <<cosmic_torrent, user_messages>>
         /\ result' = [op |-> "resume_torrent", ret |-> Ok(<< >>)]
         /\ UNCHANGED iterOrder
    ELSE Fail("resume_torrent", "Torrent not found")

resume_torrent(info_hash) ==
    IF info_hash \in DOMAIN torrents
    THEN /\ torrents' = [torrents EXCEPT ![info_hash].paused = FALSE]
         /\ events' = Append(events, Resumed(info_hash))
         /\ UNCHANGED <<cosmic_torrent, user_messages>>
         /\ result' = [op |-> "resume_torrent", ret |-> Ok(<< >>)]
         /\ UNCHANGED iterOrder
    ELSE Fail("resume_torrent", "Torrent not found")

\* remove_torrent that ignores what HashMap::remove returns.
remove_torrent_always_ok(info_hash) ==
    /\ torrents' = [k \in DOMAIN torrents \ {info_hash} |-> torrents[k]]
    /\ iterOrder' \in IterOrders(DOMAIN torrents')
    /\ UNCHANGED <<cosmic_torrent, user_messages>>
    /\ result' = [op |-> "remove_torrent", ret |-> Ok(<< >>)]
    /\ UNCHANGED events

remove_torrent(info_hash) ==
    IF info_hash \in DOMAIN torrents
    THEN /\ torrents' = [k \in DOMAIN torrents \ {info_hash} |-> torrents[k]]
         /\ iterOrder' \in IterOrders(DOMAIN torrents')
         /\ UNCHANGED <<cosmic_torrent, user_messages>>
         /\ result' = [op |-> "remove_torrent", ret |-> Ok(<< >>)]
         /\ UNCHANGED events
    ELSE Fail("remove_torrent", "Torrent not found")

\* UpdateHandle without the test progress < 1.0.
UpdateHandle_no_done_test(info_hash, handle) ==
    IF ~handle.paused
    THEN LET progress == F32Min(F32Add(handle.stats.progress, F32Increment), F32One)
             stats == [handle.stats EXCEPT
                         !.progress = progress,
                         !.download_rate = (handle.stats.download_rate + 1024) % (1024 * 1024),
                         !.upload_rate = (handle.stats.upload_rate + 512) % (1024 * 512),
                         !.peers = (handle.stats.peers % 50) + 1,
                         !.seeds = (handle.stats.seeds % 20) + 1,
                         !.downloaded = F32MulAsU64(U64AsF32(handle.info.size), progress)]
         IN  [handle |-> [handle EXCEPT !.stats = stats],
              sent |-> <<Progress(info_hash, stats)>>
                       \o (IF progress >= F32One THEN <<Completed(info_hash)>> ELSE << >>)]
    ELSE [handle |-> handle, sent |-> << >>]

\* UpdateHandle that sends Completed before Progress.
UpdateHandle_completed_first(info_hash, handle) ==
    IF ~handle.paused /\ handle.stats.progress < F32One
    THEN LET progress == F32Min(F32Add(handle.stats.progress, F32Increment), F32One)
             stats == [handle.stats EXCEPT
                         !.progress = progress,
                         !.download_rate = (handle.stats.download_rate + 1024) % (1024 * 1024),
                         !.upload_rate = (handle.stats.upload_rate + 512) % (1024 * 512),
                         !.peers = (handle.stats.peers % 50) + 1,
                         !.seeds = (handle.stats.seeds % 20) + 1,
                         !.downloaded = F32MulAsU64(U64AsF32(handle.info.size), progress)]
         IN  [handle |-> [handle EXCEPT !.stats = stats],
              sent |-> (IF progress >= F32One THEN <<Completed(info_hash)>> ELSE << >>)
                       \o <<Progress(info_hash, stats)>>]
    ELSE [handle |-> handle, sent |-> << >>]

\* UpdateHandle that skips the update that would overshoot 1.0, instead of
\* clamping it.
UpdateHandle_no_overshoot(info_hash, handle) ==
    IF ~handle.paused /\ F32Add(handle.stats.progress, F32Increment) <= F32One
    THEN LET progress == F32Add(handle.stats.progress, F32Increment)
             stats == [handle.stats EXCEPT
                         !.progress = progress,
                         !.download_rate = (handle.stats.download_rate + 1024) % (1024 * 1024),
                         !.upload_rate = (handle.stats.upload_rate + 512) % (1024 * 512),
                         !.peers = (handle.stats.peers % 50) + 1,
                         !.seeds = (handle.stats.seeds % 20) + 1,
                         !.downloaded = F32MulAsU64(U64AsF32(handle.info.size), progress)]
         IN  [handle |-> [handle EXCEPT !.stats = stats],
              sent |-> <<Progress(info_hash, stats)>>
                       \o (IF progress >= F32One THEN <<Completed(info_hash)>> ELSE << >>)]
    ELSE [handle |-> handle, sent |-> << >>]

\* UpdateHandle without the clamp .min(1.0).
UpdateHandle_no_clamp(info_hash, handle) ==
    IF ~handle.paused /\ handle.stats.progress < F32One
    THEN LET progress == F32Add(handle.stats.progress, F32Increment)
             stats == [handle.stats EXCEPT
                         !.progress = progress,
                         !.download_rate = (handle.stats.download_rate + 1024) % (1024 * 1024),
                         !.upload_rate = (handle.stats.upload_rate + 512) % (1024 * 512),
                         !.peers = (handle.stats.peers % 50) + 1,
                         !.seeds = (handle.stats.seeds % 20) + 1,
                         !.downloaded = F32MulAsU64(U64AsF32(handle.info.size), progress)]
         IN  [handle |-> [handle EXCEPT !.stats = stats],
              sent |-> <<Progress(info_hash, stats)>>
                       \o (IF progress >= F32One THEN <<Completed(info_hash)>> ELSE << >>)]
    ELSE [handle |-> handle, sent |-> << >>]

\* UpdateHandle without the test of the paused flag.
UpdateHandle_ignore_pause(info_hash, handle) ==
    IF handle.stats.progress < F32One
    THEN LET progress == F32Min(F32Add(handle.stats.progress, F32Increment), F32One)
             stats == [handle.stats EXCEPT
                         !.progress = progress,
                         !.download_rate = (handle.stats.download_rate + 1024) % (1024 * 1024),
                         !.upload_rate = (handle.stats.upload_rate + 512) % (1024 * 512),
                         !.peers = (handle.stats.peers % 50) + 1,
                         !.seeds = (handle.stats.seeds % 20) + 1,
                         !.downloaded = F32MulAsU64(U64AsF32(handle.info.size), progress)]
         IN  [handle |-> [handle EXCEPT !.stats = stats],
              sent |-> <<Progress(info_hash, stats)>>
                       \o (IF progress >= F32One THEN <<Completed(info_hash)>> ELSE << >>)]
    ELSE [handle |-> handle, sent |-> << >>]

\* One handle's turn in the reporter's for loop: the new handle and the events sent.
UpdateHandle(info_hash, handle) ==
    IF ~handle.paused /\ handle.stats.progress < F32One
    THEN Bind(F32Min(F32Add(handle.stats.progress, F32Increment), F32One), LAMBDA progress :
         Bind([handle.stats EXCEPT
                 !.progress = progress,
                 !.download_rate = (handle.stats.download_rate + 1024) % (1024 * 1024),
                 !.upload_rate = (handle.stats.upload_rate + 512) % (1024 * 512),
                 !.peers = (handle.stats.peers % 50) + 1,
                 !.seeds = (handle.stats.seeds % 20) + 1,
                 !.downloaded = F32MulAsU64(U64AsF32(handle.info.size), progress)],
              LAMBDA stats :
           [handle |-> [handle EXCEPT !.stats = stats],
            sent |-> <<Progress(info_hash, stats)>>
                     \o (IF progress >= F32One THEN <<Completed(info_hash)>> ELSE << >>)]))
    ELSE [handle |-> handle, sent |-> << >>]

RECURSIVE UpdateLoop(_, _, _)
\* The for loop over &mut self.torrents, in the map's iteration order.
UpdateLoop(order, ts, evs) ==
    IF Len(order) = 0 THEN [torrents |-> ts, events |-> evs]
    ELSE Bind(UpdateHandle(Head(order), ts[Head(order)]), LAMBDA u :
         Bind([ts EXCEPT ![Head(order)] = u.handle], LAMBDA updated :
         Bind(evs \o u.sent, LAMBDA sent :
           UpdateLoop(Tail(order), updated, sent))))

LastAddedInfo(evs, k) ==
    LET adds == { i \in 1..Len(evs) : evs[i].tag = "Added" /\ evs[i].id = k }
    IN  evs[CHOOSE i \in adds : \A j \in adds : j <= i].info
\* A reporter that keeps the handles it has seen announced across ticks and
\* puts back those that are gone from the registry.
TickCached ==
    LET seen == { events[i].id : i \in { j \in 1..Len(events) : events[j].tag = "Added" } }
        gone == seen \ DOMAIN torrents
        back == [k \in gone |-> TorrentHandle(LastAddedInfo(events, k), ZeroStats, FALSE)] @@ torrents
    IN  \E order \in IterOrders(DOMAIN back) :
          LET after == UpdateLoop(order, back, events) IN
          /\ torrents' = after.torrents
          /\ iterOrder' = order
          /\ events' = after.events
          /\ UNCHANGED <<cosmic_torrent, user_messages>>
          /\ result' = [op |-> "tick", ret |-> Ok(<< >>)]

\* One iteration of start_update_loop's loop: interval.tick().await, then the for loop.
Tick ==
    LET after == UpdateLoop(iterOrder, torrents, events) IN
    /\ torrents' = after.torrents
    /\ events' = after.events
    /\ UNCHANGED <<cosmic_torrent, user_messages>>
    /\ result' = [op |-> "tick", ret |-> Ok(<< >>)]
    /\ UNCHANGED iterOrder

\* Every identifier an add of the given inputs can register.
HashesOf(magnets, paths) ==
    { extract_info_hash(UrlParse(m).val).val :
        m \in { x \in magnets :
                  /\ UrlParse(x).ok
                  /\ extract_info_hash(UrlParse(x).val).ok } }
    \cup { HexEncode(AsBytes(FileSystem[f].torrent.info_hash)) :
             f \in { x \in paths \cap DOMAIN FileSystem : FileSystem[x].bencode } }

\* The info_hash arguments tried: the identifiers the lifecycle scenarios
\* register, and one they never do.
InfoHashes == HashesOf(CoreMagnets, CoreFiles) \cup { <<"Z">> }

CountLifecycle(evs) ==
    Cardinality({ i \in 1..Len(evs) : evs[i].tag \in {"Added", "Paused", "Resumed"} })

InWindow == Len(events) < MaxEvents

\* The lifecycle scenarios: every operation on a few inputs, and the reporter.
Next ==
    \/ InWindow /\ \E magnet_url \in CoreMagnets : add_magnet(magnet_url)
    \/ InWindow /\ \E file_path \in CoreFiles : add_torrent_file(file_path)
    \/ InWindow /\ \E info_hash \in InfoHashes : pause_torrent(info_hash)
    \/ InWindow /\ \E info_hash \in InfoHashes : resume_torrent(info_hash)
    \/ InWindow /\ \E info_hash \in InfoHashes : remove_torrent(info_hash)
    \/ (InWindow \/ CountLifecycle(events) <= MaxLongOps) /\ Tick

Spec == Init /\ [][Next]_vars

\* The admission scenarios: the add operations on every input, and the reporter.
InAdmitWindow == Len(events) < MaxAdmitEvents

NextAdmit ==
    \/ InAdmitWindow /\ \E magnet_url \in MagnetInputs : add_magnet(magnet_url)
    \/ InAdmitWindow /\ \E file_path \in FilePaths : add_torrent_file(file_path)
    \/ InAdmitWindow /\ Tick

SpecAdmit == Init /\ [][NextAdmit]_vars

\* The scenarios of one torrent added from two of its files: the identifier
\* of both, every operation on it, and the reporter.
SameTorrentHashes == HashesOf({}, SameTorrentFiles)

NextSameTorrent ==
    \/ InAdmitWindow /\ \E file_path \in SameTorrentFiles : add_torrent_file(file_path)
    \/ InAdmitWindow /\ \E info_hash \in SameTorrentHashes : pause_torrent(info_hash)
    \/ InAdmitWindow /\ \E info_hash \in SameTorrentHashes : resume_torrent(info_hash)
    \/ InAdmitWindow /\ \E info_hash \in SameTorrentHashes : remove_torrent(info_hash)
    \/ (InAdmitWindow \/ CountLifecycle(events) <= MaxLongOps) /\ Tick

SpecSameTorrent == Init /\ [][NextSameTorrent]_vars

\* The liveness scenarios: finitely many lifecycle operations, and the reporter,
\* whose loop never ends and ticks every second.
InLiveWindow == Len(events) < MaxLiveEvents

LiveMagnets == { MAGNET \o <<":","?">> \o XT_BTIH \o <<"A">> }
LiveFiles == { <<"s">> }
LiveHashes == HashesOf(LiveMagnets, LiveFiles)

NextLive ==
    \/ InLiveWindow /\ \E magnet_url \in LiveMagnets : add_magnet(magnet_url)
    \/ InLiveWindow /\ \E file_path \in LiveFiles : add_torrent_file(file_path)
    \/ InLiveWindow /\ \E info_hash \in LiveHashes : pause_torrent(info_hash)
    \/ InLiveWindow /\ \E info_hash \in LiveHashes : resume_torrent(info_hash)
    \/ InLiveWindow /\ \E info_hash \in LiveHashes : remove_torrent(info_hash)
    \/ Tick

SpecLive == Init /\ [][NextLive]_vars /\ WF_vars(Tick)

\* extract_info_hash on its own: a parsed magnet URI is drawn, and the function
\* is applied to it.
InitExtract ==
    /\ torrents = << >>
    /\ iterOrder = << >>
    /\ events = << >>
    /\ result \in { [op |-> "Url::parse", url |-> m] : m \in ExtractInputs }
    /\ cosmic_torrent = CosmicTorrentNew
    /\ user_messages = 0

ApplyExtract ==
    /\ result.op = "Url::parse"
    /\ UNCHANGED <<cosmic_torrent, user_messages>>
    /\ result' = [op |-> "extract_info_hash", url |-> result.url,
                  ret |-> extract_info_hash(UrlParse(result.url).val)]
    /\ UNCHANGED <<torrents, iterOrder, events>>

SpecExtract == InitExtract /\ [][ApplyExtract]_vars

(***************************************************************************)
(* The window layer (src/src/main.rs): struct CosmicTorrent, enum Message  *)
(* and CosmicTorrent::update.  `cosmic_torrent` is the struct (`self`);    *)
(* `user_messages` counts the messages other than Tick that update has     *)
(* handled.                                                                *)
(***************************************************************************)
MaxUserMessages == 6

\* The size given to every torrent of the window: 1024 * 1024 * 100.
ExampleSize == 1024 * 1024 * 100

RECURSIVE Decimal(_)
\* format!("{}", n) of an unsigned integer.
Decimal(n) ==
    IF n < 10 THEN <<DigitSeq[n + 1]>>
    ELSE Decimal(n \div 10) \o <<DigitSeq[(n % 10) + 1]>>

\* The Torrent built by the AddTorrent arm when the map holds len entries.
NewTorrent(len) ==
    [name |-> <<"T","o","r","r","e","n","t"," ">> \o Decimal(len + 1),
     size |-> ExampleSize,
     progress |-> 0,
     status |-> "Downloading",
     download_speed |-> 0,
     upload_speed |-> 0]

\* enum Message.
AddTorrent == [tag |-> "AddTorrent"]
AddTorrentInputChanged(input) == [tag |-> "AddTorrentInputChanged", input |-> input]
PauseTorrent(id) == [tag |-> "PauseTorrent", id |-> id]
ResumeTorrent(id) == [tag |-> "ResumeTorrent", id |-> id]
RemoveTorrent(id) == [tag |-> "RemoveTorrent", id |-> id]
MessageTick == [tag |-> "Tick"]

\* The body of the Tick arm's for loop without the test of the status.
TickTorrent_any_status(torrent) ==
    Bind(F32Min(F32Add(torrent.progress, F32Increment), F32One), LAMBDA progress :
      [torrent EXCEPT
         !.progress = progress,
         !.download_speed = (torrent.download_speed + 1024) % (1024 * 100),
         !.status = IF progress >= F32One THEN "Completed" ELSE torrent.status])

\* The body of the Tick arm's for loop, for one torrent.
TickTorrent(torrent) ==
    IF torrent.status = "Downloading"
    THEN Bind(F32Min(F32Add(torrent.progress, F32Increment), F32One), LAMBDA progress :
           [torrent EXCEPT
              !.progress = progress,
              !.download_speed = (torrent.download_speed + 1024) % (1024 * 100),
              !.status = IF progress >= F32One THEN "Completed" ELSE "Downloading"])
    ELSE torrent

\* The AddTorrent arm.
UpdateAddTorrent(self) ==
    IF self.add_torrent_input # << >>
    THEN [torrents |-> (self.add_torrent_input
                          :> NewTorrent(Cardinality(DOMAIN self.torrents)))
                       @@ self.torrents,
          add_torrent_input |-> << >>]
    ELSE self

\* `self` after update(message): the match on the message.
Updated(self, message) ==
    CASE message.tag = "AddTorrent" -> UpdateAddTorrent(self)
      [] message.tag = "AddTorrentInputChanged" ->
           [self EXCEPT !.add_torrent_input = message.input]
      [] message.tag = "PauseTorrent" ->
           IF message.id \in DOMAIN self.torrents
           THEN [self EXCEPT !.torrents[message.id].status = "Paused"]
           ELSE self
      [] message.tag = "ResumeTorrent" ->
           IF message.id \in DOMAIN self.torrents
           THEN [self EXCEPT !.torrents[message.id].status = "Downloading"]
           ELSE self
      [] message.tag = "RemoveTorrent" ->
           [self EXCEPT !.torrents =
              [k \in DOMAIN self.torrents \ {message.id} |-> self.torrents[k]]]
      [] message.tag = "Tick" ->
           [self EXCEPT !.torrents =
              [k \in DOMAIN self.torrents |-> TickTorrent(self.torrents[k])]]

\* CosmicTorrent::update.
update(message) ==
    /\ cosmic_torrent' = Updated(cosmic_torrent, message)
    /\ user_messages' = user_messages + (IF message.tag = "Tick" THEN 0 ELSE 1)
    /\ result' = [op |-> "update", message |-> message]
    /\ UNCHANGED <<torrents, iterOrder, events>>

\* What the user types into the input field, and the identifiers of the
\* buttons pressed.
WindowInputs == { << >>, <<"a">>, <<"b">> }
WindowIds == { <<"a">>, <<"b">> }

InUserWindow == user_messages < MaxUserMessages

\* The window scenarios: finitely many user messages, and the periodic Tick.
NextWindow ==
    \/ InUserWindow /\ update(AddTorrent)
    \/ InUserWindow /\ \E input \in WindowInputs : update(AddTorrentInputChanged(input))
    \/ InUserWindow /\ \E id \in WindowIds : update(PauseTorrent(id))
    \/ InUserWindow /\ \E id \in WindowIds : update(ResumeTorrent(id))
    \/ InUserWindow /\ \E id \in WindowIds : update(RemoveTorrent(id))
    \/ update(MessageTick)

SpecWindow == Init /\ [][NextWindow]_vars

(***************************************************************************)
(* Vocabulary of the properties.                                           *)
(***************************************************************************)
\* The events a step appended to the channel.
NewEvents == SubSeq(events', Len(events) + 1, Len(events'))
Appended == Len(events') >= Len(events) /\ SubSeq(events', 1, Len(events)) = events
AddOps == {"add_magnet", "add_torrent_file"}
NotFound == Err("Torrent not found")

\* The identifier under which an add of the input registers, if it registers.
MagnetId(m) ==
    LET url == UrlParse(m) IN
    IF url.ok /\ url.val.scheme = MAGNET /\ extract_info_hash(url.val).ok
    THEN Some(extract_info_hash(url.val).val) ELSE None
FileId(f) ==
    IF f \in DOMAIN FileSystem /\ FileSystem[f].bencode
    THEN Some(HexEncode(AsBytes(FileSystem[f].torrent.info_hash))) ELSE None

\* A well-formed magnet URI: it parses and its scheme is magnet.
WellFormedMagnet(m) == UrlParse(m).ok /\ UrlParse(m).val.scheme = MAGNET
\* The query parameters as written, undecoded.
RawParams(m) ==
    IF UrlParse(m).val.query.some THEN Split(UrlParse(m).val.query.val, "&") ELSE << >>
\* The positions of the decoded parameters named xt whose value starts with urn:btih:.
XtPositions(m) ==
    LET pairs == QueryPairs(UrlParse(m).val) IN
    { i \in 1..Len(pairs) : pairs[i].key = XT /\ StartsWith(pairs[i].value, URN_BTIH) }
FirstXtValue(m) ==
    LET pairs == QueryPairs(UrlParse(m).val)
        first == CHOOSE i \in XtPositions(m) : \A j \in XtPositions(m) : i <= j
    IN  StripPrefix(pairs[first].value, URN_BTIH)
\* An add that registered X and announced it, once.
RegisteredAs(X) ==
    /\ result'.ret = Ok(X)
    /\ X \in DOMAIN torrents'
    /\ Len(NewEvents) = 1 /\ Appended
    /\ NewEvents[1].tag = "Added" /\ NewEvents[1].id = X

(***************************************************************************)
(* C1: an add (add_magnet or add_torrent_file) whose identifier is already *)
(* in the registry fails, and the registry, with the existing handle's     *)
(* metadata, stats and paused flag, is left as it was.                     *)
(***************************************************************************)
C1_DuplicateAddRejected ==
    [][ /\ \A m \in CoreMagnets :
             (add_magnet(m) /\ MagnetId(m).some /\ MagnetId(m).val \in DOMAIN torrents)
             => (~result'.ret.ok /\ torrents' = torrents)
        /\ \A f \in CoreFiles :
             (add_torrent_file(f) /\ FileId(f).some /\ FileId(f).val \in DOMAIN torrents)
             => (~result'.ret.ok /\ torrents' = torrents) ]_vars

(***************************************************************************)
(* C2 as stated: every lifecycle operation, remove_torrent included,       *)
(* appends exactly one event when it succeeds and none when it fails.      *)
(***************************************************************************)
C2_OneEventPerSuccess ==
    [][ result'.op # "tick"
        => /\ Appended
           /\ Len(NewEvents) = (IF result'.ret.ok THEN 1 ELSE 0) ]_vars

\* The tag of the event each operation sends.
TagOf(op) ==
    CASE op \in AddOps -> "Added"
      [] op = "pause_torrent" -> "Paused"
      [] op = "resume_torrent" -> "Resumed"

(***************************************************************************)
(* C2 amended: add_magnet, add_torrent_file, pause_torrent and             *)
(* resume_torrent append exactly one event (Added, Paused, Resumed) when   *)
(* they succeed and none when they fail; remove_torrent appends no event,  *)
(* whether it succeeds or fails.                                           *)
(***************************************************************************)
C2_OneEventPerSuccessExceptRemove ==
    [][ result'.op # "tick"
        => /\ Appended
           /\ IF result'.ret.ok /\ result'.op # "remove_torrent"
              THEN Len(NewEvents) = 1 /\ NewEvents[1].tag = TagOf(result'.op)
              ELSE Len(NewEvents) = 0 ]_vars

\* A remove has succeeded on an engine that has sent events.
C2_Witness ==
    result.op = "remove_torrent" /\ result.ret.ok /\ Len(events) > 1

(***************************************************************************)
(* C3 as stated: for a well-formed magnet URI with a query parameter       *)
(* xt=urn:btih:X, add_magnet returns Ok(X), the registry holds a handle    *)
(* under X and exactly one Added event carrying X is sent.                 *)
(***************************************************************************)
C3_EveryXtIsTheIdentifier ==
    [][ \A m \in MagnetInputs :
          (add_magnet(m) /\ WellFormedMagnet(m))
          => \A i \in 1..Len(RawParams(m)) :
               StartsWith(RawParams(m)[i], XT_BTIH)
               => RegisteredAs(StripPrefix(RawParams(m)[i], XT_BTIH)) ]_vars

\* The well-formed inputs with such a parameter, and the identifier of each.
XtInputs == { m \in MagnetInputs : WellFormedMagnet(m) /\ XtPositions(m) # {} }
FirstXt == [m \in XtInputs |-> FirstXtValue(m)]

(***************************************************************************)
(* C3 amended: for a well-formed magnet URI, if X is what follows          *)
(* urn:btih: in the form-decoded value of the first query parameter whose  *)
(* decoded key is xt and whose decoded value starts with urn:btih:, then   *)
(* add_magnet returns Ok(X), the registry holds a handle under X and       *)
(* exactly one Added event carrying X is sent.                             *)
(***************************************************************************)
C3_FirstDecodedXtIsTheIdentifier ==
    [][ result'.op = "add_magnet"
        => \A m \in XtInputs : RegisteredAs(FirstXt[m]) \/ ~add_magnet(m) ]_vars

\* add_magnet has registered a second identifier and announced it.
C3_Witness ==
    /\ result.op = "add_magnet" /\ result.ret.ok
    /\ Cardinality(DOMAIN torrents) >= 2
    /\ events[Len(events)].tag = "Added"
    /\ events[Len(events)].id = result.ret.val

\* A magnet input that is not a URI, has another scheme, or has no decoded xt
\* parameter starting with urn:btih:.
Malformed(m) == ~UrlParse(m).ok \/ UrlParse(m).val.scheme # MAGNET \/ XtPositions(m) = {}
MalformedInputs == { m \in MagnetInputs : Malformed(m) }

(***************************************************************************)
(* C4: add_magnet on a malformed input (not a URI, a scheme other than     *)
(* magnet, no xt parameter starting with urn:btih:) returns an error and   *)
(* leaves the registry, its size and every handle, unchanged: a call that  *)
(* succeeds or changes the registry or the channel is on no such input.    *)
(***************************************************************************)
C4_MalformedMagnetRejected ==
    [][ (/\ result'.op = "add_magnet"
         /\ (result'.ret.ok \/ torrents' # torrents \/ events' # events))
        => \A m \in MalformedInputs : ~add_magnet(m) ]_vars

\* add_magnet has failed on an engine holding a torrent that has progressed.
C4_Witness ==
    /\ result.op = "add_magnet" /\ ~result.ret.ok
    /\ \E k \in DOMAIN torrents : torrents[k].stats.progress > 0

(***************************************************************************)
(* C5: remove_torrent on an identifier that is not registered returns the  *)
(* not-found error and leaves the registry unchanged; on a registered one  *)
(* it succeeds, the identifier is then absent, every other handle is       *)
(* unchanged, and pause, resume and remove of an absent identifier return  *)
(* not-found.                                                              *)
(***************************************************************************)
C5_RemoveContract ==
    [][ \A h \in InfoHashes :
          /\ remove_torrent(h)
             => IF h \in DOMAIN torrents
                THEN /\ result'.ret.ok
                     /\ DOMAIN torrents' = DOMAIN torrents \ {h}
                     /\ \A k \in DOMAIN torrents' : torrents'[k] = torrents[k]
                ELSE result'.ret = NotFound /\ torrents' = torrents
          /\ ((pause_torrent(h) \/ resume_torrent(h) \/ remove_torrent(h))
              /\ h \notin DOMAIN torrents)
             => (result'.ret = NotFound /\ torrents' = torrents /\ events' = events) ]_vars

\* A remove has succeeded and left another handle in the registry.
C5_Witness ==
    /\ result.op = "remove_torrent" /\ result.ret.ok
    /\ DOMAIN torrents # {}
    /\ \E i \in 1..Len(events) : events[i].id \notin DOMAIN torrents

\* How many Completed(k) events follow the last Added(k) in evs.
CountCompletedSinceAdded(evs, k) ==
    LET adds == { i \in 1..Len(evs) : evs[i].tag = "Added" /\ evs[i].id = k }
        from == IF adds = {} THEN 0 ELSE CHOOSE i \in adds : \A j \in adds : j <= i
    IN  Cardinality({ i \in (from + 1)..Len(evs) : evs[i] = Completed(k) })

(***************************************************************************)
(* C6: across a reporter tick the progress of every handle is              *)
(* non-decreasing and Completed(id) is sent on exactly the tick that takes *)
(* the progress of id from below 1.0 to 1.0; so since its Added event a    *)
(* registered torrent has one Completed event if its progress is 1.0 and   *)
(* none otherwise.                                                         *)
(***************************************************************************)
C6_MonotoneAndCompletedOnce ==
    [][ /\ result'.op = "tick"
           => \A k \in DOMAIN torrents :
                /\ k \in DOMAIN torrents'
                /\ torrents'[k].stats.progress >= torrents[k].stats.progress
                /\ (\E i \in 1..Len(NewEvents) : NewEvents[i] = Completed(k))
                   <=> (/\ torrents[k].stats.progress < F32One
                        /\ torrents'[k].stats.progress = F32One)
        /\ \A k \in DOMAIN torrents' :
             CountCompletedSinceAdded(events', k)
               = (IF torrents'[k].stats.progress = F32One THEN 1 ELSE 0) ]_vars

\* A torrent completed, stayed registered and unpaused, and the reporter has
\* ticked again since, completing another one.
C6_Witness ==
    \E k \in DOMAIN torrents :
      /\ torrents[k].stats.progress = F32One
      /\ ~torrents[k].paused
      /\ events[Len(events)].tag = "Completed"
      /\ \E i \in 1..(Len(events) - 3) : events[i] = Completed(k)

(***************************************************************************)
(* C7: in the event channel every Completed(id) comes right after a        *)
(* Progress(id, stats) of the same identifier with stats.progress = 1.0.   *)
(***************************************************************************)
C7_CompletedFollowsItsProgress ==
    \A i \in 1..Len(events) :
      events[i].tag = "Completed"
      => /\ i > 1
         /\ events[i - 1].tag = "Progress"
         /\ events[i - 1].id = events[i].id
         /\ events[i - 1].stats.progress = F32One

\* Two torrents have completed in the same tick.
C7_Witness ==
    \E i, j \in 1..Len(events) :
      /\ events[i].tag = "Completed" /\ events[j].tag = "Completed"
      /\ j = i + 2

(***************************************************************************)
(* C8: a successful remove_torrent(id) takes id out of the registry, only  *)
(* an add operation puts an identifier into it (a reporter tick never      *)
(* does), and every event sent refers to an identifier that is registered, *)
(* so none refers to id until it is added again.                           *)
(***************************************************************************)
C8_RemovedStaysRemoved ==
    [][ /\ \A h \in InfoHashes :
             (remove_torrent(h) /\ h \in DOMAIN torrents) => h \notin DOMAIN torrents'
        /\ result'.op \notin AddOps => DOMAIN torrents' \subseteq DOMAIN torrents
        /\ result'.op = "tick" => DOMAIN torrents' = DOMAIN torrents
        /\ Appended
        /\ \A i \in 1..Len(NewEvents) : NewEvents[i].id \in DOMAIN torrents' ]_vars

\* The reporter has updated a torrent after another one, announced earlier,
\* was removed.
C8_Witness ==
    /\ result.op = "tick"
    /\ Len(events) > 0 /\ events[Len(events)].tag = "Progress"
    /\ \E i \in 1..Len(events) : events[i].id \notin DOMAIN torrents

\* The positions in evs of the events of identifier k.
PositionsOf(evs, k) == { i \in 1..Len(evs) : evs[i].id = k }
Latest(positions) == CHOOSE i \in positions : \A j \in positions : j <= i
\* k's latest two events are Paused(k) then Resumed(k).
PausedThenResumed(k) ==
    LET ps == PositionsOf(events, k) IN
    /\ Cardinality(ps) >= 2
    /\ events[Latest(ps)].tag = "Resumed"
    /\ events[Latest(ps \ {Latest(ps)})].tag = "Paused"
\* The statistics k had when that Paused(k) was sent: those of the last
\* Progress(k) before it, or zero if k was added since.
StatsWhenPaused(k) ==
    LET ps == PositionsOf(events, k)
        p  == Latest(ps \ {Latest(ps)})
        q  == Latest({ i \in ps : i < p /\ events[i].tag \in {"Added", "Progress"} })
    IN  IF events[q].tag = "Progress" THEN events[q].stats ELSE ZeroStats

(***************************************************************************)
(* C9: when a registered torrent has been paused and then resumed, with    *)
(* nothing but reporter ticks in between, it is not paused and its stats   *)
(* are those it had when it was paused.                                    *)
(***************************************************************************)
C9_PauseResumeRoundTrip ==
    \A k \in DOMAIN torrents :
      PausedThenResumed(k)
      => /\ torrents[k].paused = FALSE
         /\ torrents[k].stats = StatsWhenPaused(k)

\* A torrent that had progressed was paused, ticked over and resumed.
C9_Witness ==
    \E k \in DOMAIN torrents :
      /\ PausedThenResumed(k)
      /\ torrents[k].stats.progress > 0
      /\ result.op = "resume_torrent"

(***************************************************************************)
(* C10: pause_torrent on a registered identifier succeeds, sets paused and *)
(* sends Paused(id), also when the torrent is already paused;              *)
(* resume_torrent likewise clears paused and sends Resumed(id), also when  *)
(* it is not paused; both change nothing else in the registry, and on an   *)
(* identifier that is not registered both return not-found and change      *)
(* nothing.                                                                *)
(***************************************************************************)
C10_PauseResumeContract ==
    [][ \A h \in InfoHashes :
          /\ pause_torrent(h)
             => IF h \in DOMAIN torrents
                THEN /\ result'.ret.ok
                     /\ torrents' = [torrents EXCEPT ![h].paused = TRUE]
                     /\ events' = Append(events, Paused(h))
                ELSE result'.ret = NotFound /\ torrents' = torrents /\ events' = events
          /\ resume_torrent(h)
             => IF h \in DOMAIN torrents
                THEN /\ result'.ret.ok
                     /\ torrents' = [torrents EXCEPT ![h].paused = FALSE]
                     /\ events' = Append(events, Resumed(h))
                ELSE result'.ret = NotFound /\ torrents' = torrents /\ events' = events ]_vars

\* A paused torrent was paused again, and Paused was sent both times.
C10_Witness ==
    /\ Len(events) >= 3
    /\ events[Len(events)].tag = "Paused"
    /\ events[Len(events) - 1] = events[Len(events)]
    /\ events[Len(events)].id \in DOMAIN torrents
    /\ torrents[events[Len(events)].id].paused

\* The paths whose file cannot be read or whose bytes are no torrent metadata.
BadFiles ==
    { f \in FilePaths : ~FsRead(f).ok \/ ~TorrentReadFromBytes(FsRead(f).val).ok }

(***************************************************************************)
(* C11: add_torrent_file on a file that cannot be read, or whose bytes     *)
(* cannot be decoded as torrent metadata, returns an error, inserts or     *)
(* modifies no handle and sends no event: a call that succeeds or changes  *)
(* the registry or the channel is on no such file.                         *)
(***************************************************************************)
C11_AddTorrentFileAtomic ==
    [][ (/\ result'.op = "add_torrent_file"
         /\ (result'.ret.ok \/ torrents' # torrents \/ events' # events))
        => \A f \in BadFiles : ~add_torrent_file(f) ]_vars

\* The decoding has failed on an engine holding a torrent that has progressed.
C11_Witness ==
    /\ result = [op |-> "add_torrent_file", ret |-> Err("Failed to parse torrent file")]
    /\ \E k \in DOMAIN torrents : torrents[k].stats.progress > 0

(***************************************************************************)
(* C12: the metadata (name, size, identifier, announce endpoints, files)   *)
(* stored in the registry under an identifier is the same after every step *)
(* (add, pause, resume, remove, reporter tick) that leaves the identifier  *)
(* registered.                                                             *)
(***************************************************************************)
C12_MetadataImmutable ==
    [][ \A k \in DOMAIN torrents \cap DOMAIN torrents' :
          torrents'[k].info = torrents[k].info ]_vars

(***************************************************************************)
(* C13: every lifecycle operation (add_magnet, add_torrent_file,           *)
(* pause_torrent, resume_torrent, remove_torrent) leaves the stats of      *)
(* every handle that is in the registry before and after it unchanged.     *)
(***************************************************************************)
C13_StatsChangedOnlyByTick ==
    [][ result'.op # "tick"
        => \A k \in DOMAIN torrents \cap DOMAIN torrents' :
             torrents'[k].stats = torrents[k].stats ]_vars

(***************************************************************************)
(* C14: right after a successful add_magnet or add_torrent_file returning  *)
(* X, the handle registered under X has every statistic zero and is not    *)
(* paused, and the last event is Added(X, info) with the info of the       *)
(* stored handle, whose info_hash is X.                                    *)
(***************************************************************************)
C14_ZeroStatsAfterAdd ==
    (result.op \in AddOps /\ result.ret.ok)
    => LET X == result.ret.val IN
       /\ X \in DOMAIN torrents
       /\ torrents[X].stats = ZeroStats
       /\ torrents[X].paused = FALSE
       /\ Len(events) > 0
       /\ events[Len(events)] = Added(X, torrents[X].info)
       /\ torrents[X].info.info_hash = X

\* A multi-file torrent was added to an engine holding a torrent that has
\* progressed.
C14_Witness ==
    /\ result.op = "add_torrent_file" /\ result.ret.ok
    /\ Len(torrents[result.ret.val].info.files) = 2
    /\ \E k \in DOMAIN torrents : torrents[k].stats.progress > 0

(***************************************************************************)
(* C15: in every reachable state the progress of every handle in the       *)
(* registry, and the progress carried by every Progress event in the       *)
(* channel, is within 0.0 to 1.0 inclusive.                                *)
(***************************************************************************)
C15_ProgressInUnitInterval ==
    /\ \A k \in DOMAIN torrents :
         torrents[k].stats.progress >= 0 /\ torrents[k].stats.progress <= F32One
    /\ \A i \in 1..Len(events) :
         events[i].tag = "Progress"
         => events[i].stats.progress >= 0 /\ events[i].stats.progress <= F32One

\* The reporter has taken a torrent through the last step below 1.0 up to 1.0.
C15_Witness ==
    /\ \E k \in DOMAIN torrents : torrents[k].stats.progress = F32One
    /\ \E i \in 1..Len(events) :
         /\ events[i].tag = "Progress"
         /\ events[i].stats.progress < F32One
         /\ events[i].stats.progress + F32Increment > F32One

\* The handles a reporter tick updates: not paused, progress below 1.0.
Active(handle) == ~handle.paused /\ handle.stats.progress < F32One
\* The positions in the events a step appended of the events of identifier k.
NewPositionsOf(k) == { i \in 1..Len(NewEvents) : NewEvents[i].id = k }

(***************************************************************************)
(* C16: a reporter tick updates each handle that is not paused and has     *)
(* progress < 1.0 (its progress grows, its paused flag and metadata stay)  *)
(* and sends exactly one Progress event for it, carrying the new stats;    *)
(* every other handle (paused, or progress at 1.0) is left as it is and    *)
(* no event, Progress or Completed, is sent for it; the registry keeps its *)
(* identifiers.                                                            *)
(***************************************************************************)
C16_TickFrame ==
    [][ result'.op = "tick"
        => /\ DOMAIN torrents' = DOMAIN torrents
           /\ Appended
           /\ \A k \in DOMAIN torrents :
                IF Active(torrents[k])
                THEN /\ torrents'[k].stats.progress > torrents[k].stats.progress
                     /\ torrents'[k].paused = torrents[k].paused
                     /\ torrents'[k].info = torrents[k].info
                     /\ Cardinality({ i \in NewPositionsOf(k) :
                                        NewEvents[i].tag = "Progress" }) = 1
                     /\ \A i \in NewPositionsOf(k) :
                          NewEvents[i].tag = "Progress"
                          => NewEvents[i].stats = torrents'[k].stats
                ELSE /\ torrents'[k] = torrents[k]
                     /\ NewPositionsOf(k) = {} ]_vars

\* In one tick the reporter has updated a torrent and skipped one that had
\* completed in an earlier tick.
C16_Witness ==
    /\ result.op = "tick"
    /\ Len(events) > 2
    /\ events[Len(events)].tag = "Progress"
    /\ events[Len(events) - 1].tag = "Progress"
    /\ events[Len(events) - 1].id = events[Len(events)].id
    /\ \E k \in DOMAIN torrents : torrents[k].stats.progress = F32One

\* size * p / 2^30 rounded to the nearest integer (halves up), for p in units
\* of 2^-30, computed on 15-bit halves so that no product exceeds 31 bits.
RoundedProduct(size, p) ==
    LET w  == Pow2(15)
        sh == size \div w
        sl == size % w
        ph == p \div w
        pl == p % w
    IN  sh * ph + ((sh * pl + sl * ph) + (sl * pl + Pow2(29)) \div w) \div w

(***************************************************************************)
(* C17: after a reporter tick that updates a handle, its progress is its   *)
(* former progress plus the per-tick increment 0.01 (the single-precision  *)
(* sum, clamped to 1.0) and its downloaded equals info.size * progress     *)
(* rounded to the nearest integer, for every size and every step.          *)
(***************************************************************************)
C17_IncrementAndRoundedBytes ==
    [][ result'.op = "tick"
        => \A k \in DOMAIN torrents :
             Active(torrents[k])
             => /\ torrents'[k].stats.progress
                     = F32Min(F32Add(torrents[k].stats.progress, F32Increment), F32One)
                /\ torrents'[k].stats.downloaded
                     = RoundedProduct(torrents[k].info.size, torrents'[k].stats.progress) ]_vars

\* Identifier k is registered and not paused.
LeftRunning(k) == k \in DOMAIN torrents /\ ~torrents[k].paused
\* Identifier k has reached progress 1.0 and Completed(k) has been sent.
HasCompleted(k) ==
    /\ k \in DOMAIN torrents
    /\ torrents[k].stats.progress = F32One
    /\ \E i \in 1..Len(events) : events[i] = Completed(k)

(***************************************************************************)
(* C18: when the reporter keeps ticking, a torrent that is registered and  *)
(* unpaused eventually has progress 1.0 and a Completed event for its      *)
(* identifier in the channel, unless it is paused or removed first; so     *)
(* every torrent that is left registered and unpaused for ever completes.  *)
(***************************************************************************)
C18_EventuallyCompleted ==
    \A k \in LiveHashes : LeftRunning(k) ~> (HasCompleted(k) \/ ~LeftRunning(k))

\* A torrent that was paused and resumed has completed.
C18_Witness ==
    \E k \in DOMAIN torrents :
      /\ HasCompleted(k)
      /\ \E i \in 1..Len(events) : events[i] = Resumed(k)

(***************************************************************************)
(* C19: every Progress, Completed, Paused or Resumed event is sent for an  *)
(* identifier that is in the registry when it is sent (before and after    *)
(* the step that sends it), and in the channel it comes after an Added     *)
(* event of the same identifier.                                           *)
(***************************************************************************)
C19_EventsPrecededByAdded ==
    [][ /\ Appended
        /\ \A i \in (Len(events) + 1)..Len(events') :
             events'[i].tag # "Added"
             => /\ events'[i].id \in DOMAIN torrents
                /\ events'[i].id \in DOMAIN torrents'
                /\ \E j \in 1..(i - 1) :
                     events'[j].tag = "Added" /\ events'[j].id = events'[i].id ]_vars

\* A torrent that was added a second time has then been paused, resumed or
\* updated by the reporter.
C19_Witness ==
    /\ Len(events) >= 4
    /\ events[Len(events)].tag \in {"Progress", "Paused", "Resumed"}
    /\ events[Len(events) - 1].tag = "Added"
    /\ events[Len(events) - 1].id = events[Len(events)].id
    /\ \E j \in 1..(Len(events) - 2) : events[j] = events[Len(events) - 1]
    /\ result.op \in {"tick", "pause_torrent", "resume_torrent"}

(***************************************************************************)
(* C20: extract_info_hash returns Ok of the value, with the prefix         *)
(* urn:btih: stripped and otherwise as it is (any length, any characters,  *)
(* possibly empty), of the first of the URI's query parameters whose key   *)
(* is xt and whose value starts with urn:btih:; xt parameters without the  *)
(* prefix and later matching parameters do not count; it returns the error *)
(* exactly when no parameter matches.  (The parameters are those of        *)
(* Url::query_pairs, keys and values form-decoded.)                        *)
(***************************************************************************)
C20_ExtractInfoHash ==
    result.op = "extract_info_hash"
    => /\ WellFormedMagnet(result.url)
       /\ IF XtPositions(result.url) = {}
          THEN result.ret = Err("No info hash found in magnet URL")
          ELSE result.ret = Ok(FirstXtValue(result.url))

\* The function was applied to a URI with two matching parameters of
\* different values, and has returned.
C20_Witness ==
    /\ result.op = "extract_info_hash"
    /\ result.ret.ok
    /\ Cardinality(XtPositions(result.url)) = 2
    /\ LET pairs == QueryPairs(UrlParse(result.url).val)
       IN  pairs[1].value # pairs[2].value

(***************************************************************************)
(* C21: in the window layer (CosmicTorrent::update), after any sequence of *)
(* messages every torrent has its progress within 0.0 to 1.0, and a        *)
(* torrent whose status is Completed has progress 1.0; a Tick keeps the    *)
(* set of torrents and the input field and changes only torrents whose     *)
(* status is Downloading; AddTorrent with an empty input changes nothing   *)
(* of the state.                                                           *)
(***************************************************************************)
WindowTorrents == cosmic_torrent.torrents

C21_ProgressAndCompleted ==
    \A k \in DOMAIN WindowTorrents :
      /\ WindowTorrents[k].progress >= 0
      /\ WindowTorrents[k].progress <= F32One
      /\ WindowTorrents[k].status = "Completed" => WindowTorrents[k].progress = F32One

C21_TickChangesOnlyDownloading ==
    (result'.op = "update" /\ result'.message = MessageTick)
    => /\ DOMAIN cosmic_torrent'.torrents = DOMAIN WindowTorrents
       /\ cosmic_torrent'.add_torrent_input = cosmic_torrent.add_torrent_input
       /\ \A k \in DOMAIN WindowTorrents :
            WindowTorrents[k].status # "Downloading"
            => cosmic_torrent'.torrents[k] = WindowTorrents[k]

C21_EmptyAddChangesNothing ==
    (/\ result'.op = "update"
     /\ result'.message = AddTorrent
     /\ cosmic_torrent.add_torrent_input = << >>)
    => cosmic_torrent' = cosmic_torrent

C21_WindowStateMachine ==
    /\ []C21_ProgressAndCompleted
    /\ [][C21_TickChangesOnlyDownloading /\ C21_EmptyAddChangesNothing]_vars

\* AddTorrent was handled with an empty input (a torrent it had inserted
\* would be Downloading at progress 0.0) while two torrents were in the map:
\* one Completed, the other Paused part of the way, which the Ticks that
\* completed the first have left alone.
C21_Witness ==
    /\ result.op = "update"
    /\ result.message = AddTorrent
    /\ cosmic_torrent.add_torrent_input = << >>
    /\ \E j, k \in DOMAIN WindowTorrents :
         /\ WindowTorrents[j].status = "Completed"
         /\ WindowTorrents[j].progress = F32One
         /\ WindowTorrents[k].status = "Paused"
         /\ WindowTorrents[k].progress > 0
         /\ WindowTorrents[k].progress < F32One

====
